---- MODULE Spec2Model ----
(***************************************************************************)
(* Frame-processing pipelines of the blask application:                    *)
(*   - convertVideoBackground (utils/convertVideoBackground.js, kept as    *)
(*     src/unnamed/part_000): solid-background matte recorded to a Blob;   *)
(*   - the UploadAR segmentation loop (src/components/upload-ar.jsx):      *)
(*     transparent-background matte fed to a canvas texture;               *)
(*   - the upload page frame loop (src/app/upload/page.jsx): flipped       *)
(*     transparent matte with a pixel-count fallback.                      *)
(* Canvases are modelled pixel by pixel (straight RGBA, alpha 0 or 255),   *)
(* asynchronous code as one action per run-to-completion step.             *)
(***************************************************************************)
EXTENDS Integers, Sequences, FiniteSets, TLC

\* ------------------------------------------------------------------ bounds
\* number of pixels of a frame of the UploadAR pipeline
NumPixels == 4
\* number of pixels of a frame of the convert pipeline
CvPixels == 2
\* length of the source video in clock units
Duration == 2
\* number of compositing ticks one convert run may take
MaxTicks == 2
\* number of data chunks the recorder may deliver before it is stopped
MaxChunks == 1

\* ------------------------------------------------------------------ state
\* convertVideoBackground (one call)
VARIABLES
    cvPc,            \* where the async executor is: "loading", "awaitMeta",
                     \* "awaitPlay", "awaitResume", "looping", "failed"
    cvMimeReq,       \* options.mimeType
    cvHasProgress,   \* typeof options.onProgress === 'function'
    cvSupported,     \* supportedMime
    cvRecorderMime,  \* recorderMime ("" before it is computed)
    recMime,         \* the mimeType option the recorder was constructed with
    cvAudioCtx,      \* audioCtx: "null", "open" or "closed"
    cvAudioTrack,    \* the combined stream carries an audio track
    vPaused,         \* video.paused
    vEnded,          \* video.ended
    vTime,           \* video.currentTime
    cvStopped,       \* the local flag `stopped`
    cvTemp,          \* tempCanvas
    cvMask,          \* maskCanvas
    cvOut,           \* outCanvas
    cvSeg,           \* segmentation.data of the last resolved call
    cvRaf,           \* a requestAnimationFrame(processFrame) is pending
    cvSegInFlight,   \* processFrame is suspended in net.segmentPerson
    cvTicks,         \* number of segmentation calls issued
    cvTickResult,    \* how the last processFrame run ended: "none",
                     \* "composited", "rejected" or "terminated"
    recState,        \* recorder.state ("none" before construction)
    recStopPending,  \* the recorder's dataavailable+stop task is queued
    recChunks,       \* recordedChunks
    recEmpty,        \* the dataavailable events delivered with e.data.size 0
    recDelivered,    \* number of dataavailable events fired while recording
    recErrored,      \* recorder.onerror has run
    recStopCalls,    \* recorder.stop() calls issued by processFrame
    recBadStops,     \* of those, calls on a recorder that was not recording
    cvBlobs,         \* number of Blobs assembled by recorder.onstop
    cvBlob,          \* the Blob passed to resolve: <<>> or <<chunks, type>>
    cvResolveCalls,  \* calls of resolve
    cvRejectCalls,   \* calls of reject
    cvOutcome,       \* state of the returned promise
    cvError,         \* what the catch clause passed to reject: "none",
                     \* "load", "video" (the element's error event),
                     \* "recorder"
    cvProgPrev,      \* the value passed to onProgress before the last one
    cvProgLast,      \* the last value passed to onProgress, times Duration
    cvProgThrew      \* the onProgress call of the tick just completed threw

cvVars == <<cvPc, cvMimeReq, cvHasProgress, cvSupported, cvRecorderMime,
            recMime, cvAudioCtx, cvAudioTrack, vPaused, vEnded, vTime,
            cvStopped, cvTemp, cvMask, cvOut, cvSeg, cvRaf, cvSegInFlight,
            cvTicks, cvTickResult, recState, recStopPending, recChunks,
            recEmpty, recDelivered, recErrored, recStopCalls, recBadStops,
            cvBlobs, cvBlob, cvResolveCalls, cvRejectCalls, cvOutcome,
            cvError, cvProgPrev, cvProgLast, cvProgThrew>>

\* UploadAR (one run of the effect on videoSrc)
VARIABLES
    uaMounted,     \* the effect is live: 'canplay' listener attached
    uaCancel,      \* segmentationLoop.cancel
    uaRunning,     \* segmentationLoop.running
    uaCanPlays,    \* number of handleCanPlay runs, one initBodyPix call each
    uaPc,          \* per initBodyPix call: "unborn", "loading", "sleeping",
                   \* "segmenting", "exited" or "failed"
    uaLatest,      \* the call that last assigned the effect's variables
                   \* sourceCanvas, outputCanvas and canvasTex (0: null)
    uaSource,      \* the pixels of sourceCanvas
    uaOutput,      \* the pixels of outputCanvas
    uaFlagged,     \* canvasTex.needsUpdate has been set
    uaTexture,     \* the texture in component state
    uaSrc,         \* the image data `src` the last composite on
                   \* outputCanvas read from sourceCanvas
    uaMask,        \* segmentation.data of the last composite on outputCanvas
    uaTick,        \* how the last tick on the tracked canvases ended: "none",
                   \* "composited" or "rejected"
    uaLateCalls    \* a loop has called segmentPerson after the effect's cleanup

uaVars == <<uaMounted, uaCancel, uaRunning, uaCanPlays, uaPc, uaLatest,
            uaSource, uaOutput, uaFlagged, uaTexture, uaSrc, uaMask, uaTick,
            uaLateCalls>>

\* upload page (the frame-loop effect and what it shares)
VARIABLES
    pgMounted,    \* the page is mounted
    pgModel,      \* the state variable model is set
    pgVideo,      \* the page's video element: "none" (no videoURL yet),
                  \* "loading", or "ready" (videoWidth and videoHeight are
                  \* non-zero)
    pgEffect,     \* the latest run of the frame-loop effect
    pgHasModel,   \* per effect run: the model its closure captured is set
    pgLoop,       \* per effect run: "none", "raf" (frameLoop requested),
                  \* "segmenting" (suspended in segmentPerson) or "stopped"
    pgCanvas,     \* the pixels of the mask canvas the renderer samples, <<>>
                  \* until frameLoop first sizes it to the video
    pgFrameAt,      \* position of the frame drawn by the last composite
    pgSeg,        \* segmentation.data of the last composite
    pgTick        \* what frameLoop last did to the canvas: "none", "started"
                  \* (cleared by the resize), "composited" or "rejected"

pgVars == <<pgMounted, pgModel, pgVideo, pgEffect, pgHasModel,
            pgLoop, pgCanvas, pgFrameAt, pgSeg, pgTick>>

\* convert page (the component's state and the conversions it has started)
VARIABLES
    cpFiles,       \* number of object URLs created by onFile so far
    cpSourceUrl,   \* sourceUrl: 0 for null, else the number of its object URL
    cpConvertedUrl,\* convertedUrl: 0 for null, else the number of the source
                   \* URL whose conversion produced the Blob behind it
    cpProgress,    \* progress: 0, or 1 for a value reported by onProgress
    cpProcessing,  \* processing
    cpJobs         \* the source URLs whose convertVideoBackground call has
                   \* not settled yet

cpVars == <<cpFiles, cpSourceUrl, cpConvertedUrl, cpProgress, cpProcessing,
            cpJobs>>

vars == <<cvVars, uaVars, pgVars, cpVars>>

\* ------------------------------------------------------------ pixel model
Px(r, g, b, a) == [r |-> r, g |-> g, b |-> b, a |-> a]

Transparent == Px(0, 0, 0, 0)

Red == Px(255, 0, 0, 255)

Green == Px(0, 255, 0, 255)

Blue == Px(0, 0, 255, 255)

Yellow == Px(255, 255, 0, 255)

Palette == <<Red, Green, Blue, Yellow>>

\* the decoded video frame at playback position t: opaque pixels, the colour
\* varying with the pixel and with the position
VideoFrame(t, n) == [i \in 1..n |-> Palette[((i - 1 + t) % 4) + 1]]

\* the segmentation results the engine may return for a frame of n pixels:
\* nobody, everybody, the first pixel only, the two end pixels only, and the
\* complements of these (for two pixels: every 0/1 mask); and one mask that
\* is a pixel short, one that is a pixel long
BinSeqs(n) ==
    LET sets == {{}, {1}, {1, n}}
    IN {[i \in 1..n |-> IF i \in on THEN 1 ELSE 0] : on \in sets}
       \cup {[i \in 1..n |-> IF i \in on THEN 0 ELSE 1] : on \in sets}

ShortMask(n) == [i \in 1..(n - 1) |-> 1]

LongMask(n) == [i \in 1..(n + 1) |-> 1]

Masks(n) == BinSeqs(n) \cup {ShortMask(n), LongMask(n)}

\* the masks drawn for convertVideoBackground: nobody, a person on the first
\* pixel only, a person everywhere, and the two masks of the wrong length
CvMasks(n) ==
    {[i \in 1..n |-> 0], [i \in 1..n |-> IF i = 1 THEN 1 ELSE 0],
     [i \in 1..n |-> 1], ShortMask(n), LongMask(n)}

\* number of person-positive (truthy) entries of a mask
PersonCount(seg) == Cardinality({i \in DOMAIN seg : seg[i] # 0})

\* ------------------------------------------------------- 2D canvas context
\* clearRect over the whole canvas: transparent black
ClearRect(n) == [i \in 1..n |-> Transparent]

\* fillRect over the whole canvas with an opaque fillStyle, source-over
FillRect(n, color) == [i \in 1..n |-> color]

\* one pixel of globalCompositeOperation 'source-over' (alpha is 0 or 255)
SourceOverPx(dst, src) == IF src.a = 255 THEN src
                          ELSE IF src.a = 0 THEN dst
                          ELSE [src EXCEPT !.a = 255]

\* drawImage(src) over the whole canvas with 'source-over'
DrawImage(dst, src) == [i \in DOMAIN dst |-> SourceOverPx(dst[i], src[i])]

\* one pixel of 'destination-in': the destination is kept scaled by the
\* source's alpha; a pixel whose alpha becomes 0 is transparent black
DestinationInPx(dst, src) ==
    LET a == (dst.a * src.a) \div 255
    IN IF a = 0 THEN Transparent ELSE [dst EXCEPT !.a = a]

\* drawImage(src) over the whole canvas with 'destination-in'
DrawDestinationIn(dst, src) ==
    [i \in DOMAIN dst |-> DestinationInPx(dst[i], src[i])]

\* vertical flip: translate(0, height); scale(1, -1) before a drawImage
FlipIndex(i, w, h) ==
    LET x == (i - 1) % w
        y == (i - 1) \div w
    IN (h - 1 - y) * w + x + 1

FlipVertical(img, w, h) == [i \in DOMAIN img |-> img[FlipIndex(i, w, h)]]

\* ------------------------------------------- convertVideoBackground: state
DefaultMime == "video/webm"

MimeTypes == {"video/webm", "video/mp4"}

\* options.backgroundColor, default '#00FF00'
BackgroundColor == Green

\* no value has been passed to onProgress yet
NoProgress == -1

CvInit ==
    /\ cvPc = "loading"
    /\ cvMimeReq \in MimeTypes
    /\ cvHasProgress \in BOOLEAN
    /\ cvSupported = FALSE
    /\ cvRecorderMime = ""
    /\ recMime = ""
    /\ cvAudioCtx = "null"
    /\ cvAudioTrack = FALSE
    /\ vPaused = TRUE
    /\ vEnded = FALSE
    /\ vTime = 0
    /\ cvStopped = FALSE
    /\ cvTemp = ClearRect(CvPixels)
    /\ cvMask = ClearRect(CvPixels)
    /\ cvOut = ClearRect(CvPixels)
    /\ cvSeg = <<>>
    /\ cvRaf = FALSE
    /\ cvSegInFlight = FALSE
    /\ cvTicks = 0
    /\ cvTickResult = "none"
    /\ recState = "none"
    /\ recStopPending = FALSE
    /\ recChunks = <<>>
    /\ recEmpty = {}
    /\ recDelivered = 0
    /\ recErrored = FALSE
    /\ recStopCalls = 0
    /\ recBadStops = 0
    /\ cvBlobs = 0
    /\ cvBlob = <<>>
    /\ cvResolveCalls = 0
    /\ cvRejectCalls = 0
    /\ cvOutcome = "pending"
    /\ cvError = "none"
    /\ cvProgPrev = NoProgress
    /\ cvProgLast = NoProgress
    /\ cvProgThrew = FALSE

optVars == <<cvMimeReq, cvHasProgress>>

setupVars == <<cvSupported, cvRecorderMime, recMime, cvAudioCtx, cvAudioTrack>>

videoVars == <<vPaused, vEnded, vTime>>

canvasVars == <<cvTemp, cvMask, cvOut, cvSeg>>

loopVars == <<cvRaf, cvSegInFlight, cvTicks, cvTickResult, cvStopped>>

recVars == <<recState, recStopPending, recChunks, recEmpty, recDelivered,
             recErrored, recStopCalls, recBadStops>>

promiseVars == <<cvBlobs, cvBlob, cvResolveCalls, cvRejectCalls, cvOutcome,
                 cvError>>

progVars == <<cvProgPrev, cvProgLast, cvProgThrew>>

Min(a, b) == IF a < b THEN a ELSE b

\* ----------------------------------------- convertVideoBackground: helpers
\* resolve(blob) of the returned promise: only the first settlement counts
CvResolve(blob) ==
    /\ cvResolveCalls' = cvResolveCalls + 1
    /\ cvOutcome' = IF cvOutcome = "pending" THEN "resolved" ELSE cvOutcome
    /\ cvBlob' = IF cvOutcome = "pending" THEN blob ELSE cvBlob
    /\ UNCHANGED <<cvRejectCalls, cvError>>

\* reject(err) in the executor's catch clause; the caller of this operator
\* says which error the clause caught
CvReject ==
    /\ cvRejectCalls' = cvRejectCalls + 1
    /\ cvOutcome' = IF cvOutcome = "pending" THEN "rejected" ELSE cvOutcome
    /\ UNCHANGED <<cvResolveCalls, cvBlob>>

\* a negotiation that takes the requested type whatever the recorder supports
RecorderMimeAsRequested(supported, requested) == requested

\* recorderMime = supportedMime ? mimeType : 'video/webm'
RecorderMime(supported, requested) ==
    IF supported THEN requested ELSE DefaultMime

\* the mask image built from segmentation.data and put on maskCanvas: white,
\* alpha 255 where the entry is truthy; entries past the image are dropped,
\* pixels past the data stay transparent black
BuildMaskImage(seg, n) ==
    [i \in 1..n |-> IF i <= Len(seg)
                    THEN Px(255, 255, 255, IF seg[i] # 0 THEN 255 ELSE 0)
                    ELSE Transparent]

\* the composite of one tick: clear, fill with the background colour, draw
\* the frame, then draw the mask canvas with 'destination-in'
CompositeSolid(temp, mask, n) ==
    LET cleared == ClearRect(n)
        filled  == DrawImage(cleared, FillRect(n, BackgroundColor))
        drawn   == DrawImage(filled, temp)
    IN DrawDestinationIn(drawn, mask)

\* a progress fraction that reports what is left instead of what is done
ProgressRemaining(t, d) == d - Min(d, t)

\* Math.min(1, video.currentTime / video.duration), in units of 1/d
ProgressValue(t, d) == Min(d, t)

\* a termination branch that stops the recorder whatever its state
StopGuardAlways(state) == TRUE

\* the condition under which processFrame asks the recorder to stop
StopGuard(state) == state # "inactive"

\* recorder.start() followed by the first requestAnimationFrame(processFrame)
CvStartLoop ==
    /\ recState' = "recording"
    /\ cvRaf' = TRUE
    /\ cvPc' = "looping"
    /\ UNCHANGED <<recStopPending, recChunks, recEmpty, recDelivered,
                   recErrored, recStopCalls, recBadStops, cvSegInFlight,
                   cvTicks, cvTickResult, cvStopped>>

\* ----------------------------------------- convertVideoBackground: actions
\* the dynamic imports and bodyPix.load resolve; the video element is created
CvLoadOk ==
    /\ cvPc = "loading"
    /\ cvPc' = "awaitMeta"
    /\ UNCHANGED <<optVars, setupVars, videoVars, canvasVars, loopVars,
                   recVars, promiseVars, progVars>>
    /\ UNCHANGED <<uaVars, pgVars, cpVars>>

\* an import or bodyPix.load rejects: the catch clause rejects the promise
CvLoadFail ==
    /\ cvPc = "loading"
    /\ cvPc' = "failed"
    /\ CvReject
    /\ cvError' = "load"
    /\ UNCHANGED <<optVars, setupVars, videoVars, canvasVars, loopVars,
                   recVars, cvBlobs, progVars>>
    /\ UNCHANGED <<uaVars, pgVars, cpVars>>

\* an executor that reports the video's error event but goes on to build the
\* recorder
CvMetaErrorIgnored ==
    /\ cvPc = "awaitMeta"
    /\ cvPc' = "awaitPlay"
    /\ recState' = "inactive"
    /\ CvReject
    /\ cvError' = "video"
    /\ UNCHANGED <<optVars, setupVars, videoVars, canvasVars, loopVars,
                   recStopPending, recChunks, recEmpty, recDelivered,
                   recErrored, recStopCalls, recBadStops, cvBlobs, progVars>>
    /\ UNCHANGED <<uaVars, pgVars, cpVars>>

\* the video's 'error' event fires while the executor waits for metadata
CvMetaError ==
    /\ cvPc = "awaitMeta"
    /\ cvPc' = "failed"
    /\ CvReject
    /\ cvError' = "video"
    /\ UNCHANGED <<optVars, setupVars, videoVars, canvasVars, loopVars,
                   recVars, cvBlobs, progVars>>
    /\ UNCHANGED <<uaVars, pgVars, cpVars>>

\* 'loadedmetadata' fires: canvases, MIME negotiation, audio routing, recorder
\* construction and the call of video.play(), up to the await on its result
CvMetaLoaded ==
    /\ cvPc = "awaitMeta"
    /\ \E typeSupported, audioOk, fallbackAudio, recorderOk \in BOOLEAN :
        /\ typeSupported => recorderOk
        /\ (~typeSupported /\ cvMimeReq = DefaultMime) => ~recorderOk
        /\ audioOk => ~fallbackAudio
        /\ cvSupported' = typeSupported
        /\ cvRecorderMime' = RecorderMime(typeSupported, cvMimeReq)
        /\ recMime' = IF recorderOk THEN cvRecorderMime' ELSE recMime
        /\ cvAudioCtx' = IF audioOk THEN "open" ELSE "null"
        /\ cvAudioTrack' = (audioOk \/ fallbackAudio)
        /\ IF recorderOk
           THEN /\ recState' = "inactive"
                /\ cvPc' = "awaitPlay"
                /\ UNCHANGED promiseVars
           ELSE /\ recState' = recState
                /\ cvPc' = "failed"
                /\ CvReject
                /\ cvError' = "recorder"
                /\ UNCHANGED cvBlobs
    /\ UNCHANGED <<optVars, videoVars, canvasVars, loopVars, recStopPending,
                   recChunks, recEmpty, recDelivered, recErrored,
                   recStopCalls, recBadStops, progVars>>
    /\ UNCHANGED <<uaVars, pgVars, cpVars>>

\* an executor that lets the refusal of video.play() reach its catch clause
CvPlayResultRejects ==
    /\ cvPc = "awaitPlay"
    /\ \E ok \in BOOLEAN :
        /\ vPaused' = ~ok
        /\ IF ok
           THEN /\ IF cvAudioCtx = "open"
                   THEN /\ cvPc' = "awaitResume"
                        /\ UNCHANGED <<loopVars, recVars>>
                   ELSE CvStartLoop
                /\ UNCHANGED promiseVars
           ELSE /\ cvPc' = "failed"
                /\ CvReject
                /\ cvError' = "play"
                /\ UNCHANGED <<loopVars, recVars, cvBlobs>>
    /\ UNCHANGED <<optVars, setupVars, vEnded, vTime, canvasVars, progVars>>
    /\ UNCHANGED <<uaVars, pgVars, cpVars>>

\* video.play() settles; a refusal is swallowed by the .catch. Without an
\* audio context the executor goes straight on to recorder.start()
CvPlayResult ==
    /\ cvPc = "awaitPlay"
    /\ \E ok \in BOOLEAN : vPaused' = ~ok
    /\ IF cvAudioCtx = "open"
       THEN /\ cvPc' = "awaitResume"
            /\ UNCHANGED <<loopVars, recVars>>
       ELSE CvStartLoop
    /\ UNCHANGED <<optVars, setupVars, vEnded, vTime, canvasVars,
                   promiseVars, progVars>>
    /\ UNCHANGED <<uaVars, pgVars, cpVars>>

\* audioCtx.resume() settles (a rejection is ignored)
CvResumeDone ==
    /\ cvPc = "awaitResume"
    /\ CvStartLoop
    /\ UNCHANGED <<optVars, setupVars, videoVars, canvasVars, promiseVars,
                   progVars>>
    /\ UNCHANGED <<uaVars, pgVars, cpVars>>

\* a termination branch that asks for one more frame after stopping
CvTickTerminateRetries ==
    /\ cvPc = "looping"
    /\ cvRaf
    /\ (vPaused \/ vEnded \/ cvStopped)
    /\ cvRaf' = TRUE
    /\ cvTickResult' = "terminated"
    /\ IF StopGuard(recState)
       THEN /\ recStopCalls' = recStopCalls + 1
            /\ IF recState = "recording"
               THEN /\ recState' = "inactive"
                    /\ recStopPending' = TRUE
                    /\ UNCHANGED recBadStops
               ELSE /\ recBadStops' = recBadStops + 1
                    /\ UNCHANGED <<recState, recStopPending>>
       ELSE UNCHANGED <<recState, recStopPending, recStopCalls, recBadStops>>
    /\ cvProgThrew' = FALSE
    /\ UNCHANGED <<cvPc, optVars, setupVars, videoVars, canvasVars,
                   cvSegInFlight, cvTicks, cvStopped, recChunks, recEmpty,
                   recDelivered, recErrored, promiseVars, cvProgPrev,
                   cvProgLast>>
    /\ UNCHANGED <<uaVars, pgVars, cpVars>>

\* processFrame, termination branch: the video is paused or ended
CvTickTerminate ==
    /\ cvPc = "looping"
    /\ cvRaf
    /\ (vPaused \/ vEnded \/ cvStopped)
    /\ cvRaf' = FALSE
    /\ cvTickResult' = "terminated"
    /\ IF StopGuard(recState)
       THEN /\ recStopCalls' = recStopCalls + 1
            /\ IF recState = "recording"
               THEN /\ recState' = "inactive"
                    /\ recStopPending' = TRUE
                    /\ UNCHANGED recBadStops
               ELSE /\ recBadStops' = recBadStops + 1
                    /\ UNCHANGED <<recState, recStopPending>>
       ELSE UNCHANGED <<recState, recStopPending, recStopCalls, recBadStops>>
    /\ cvProgThrew' = FALSE
    /\ UNCHANGED <<cvPc, optVars, setupVars, videoVars, canvasVars,
                   cvSegInFlight, cvTicks, cvStopped, recChunks, recEmpty,
                   recDelivered, recErrored, promiseVars, cvProgPrev,
                   cvProgLast>>
    /\ UNCHANGED <<uaVars, pgVars, cpVars>>

\* a processFrame that requests the next frame before it awaits the mask
CvTickSegmentEager ==
    /\ cvPc = "looping"
    /\ cvRaf
    /\ ~(vPaused \/ vEnded \/ cvStopped)
    /\ cvTicks < MaxTicks
    /\ cvRaf' = TRUE
    /\ cvTemp' = DrawImage(cvTemp, VideoFrame(vTime, CvPixels))
    /\ cvSegInFlight' = TRUE
    /\ cvTicks' = cvTicks + 1
    /\ cvProgThrew' = FALSE
    /\ UNCHANGED <<cvPc, optVars, setupVars, videoVars, cvMask, cvOut, cvSeg,
                   cvTickResult, cvStopped, recVars, promiseVars, cvProgPrev,
                   cvProgLast>>
    /\ UNCHANGED <<uaVars, pgVars, cpVars>>

\* processFrame up to its await: draw the frame, call net.segmentPerson
CvTickSegment ==
    /\ cvPc = "looping"
    /\ cvRaf
    /\ ~(vPaused \/ vEnded \/ cvStopped)
    /\ cvTicks < MaxTicks
    /\ cvRaf' = FALSE
    /\ cvTemp' = DrawImage(cvTemp, VideoFrame(vTime, CvPixels))
    /\ cvSegInFlight' = TRUE
    /\ cvTicks' = cvTicks + 1
    /\ cvProgThrew' = FALSE
    /\ UNCHANGED <<cvPc, optVars, setupVars, videoVars, cvMask, cvOut, cvSeg,
                   cvTickResult, cvStopped, recVars, promiseVars, cvProgPrev,
                   cvProgLast>>
    /\ UNCHANGED <<uaVars, pgVars, cpVars>>

\* a tick whose progress callback's exception escapes processFrame
NextFrameUnlessThrew(threw) == ~threw

\* whether processFrame gets from the progress report to its closing
\* requestAnimationFrame: the callback's exception is caught on the spot
ReachesNextFrame(threw) == TRUE

\* net.segmentPerson resolves: mask image, composite, progress (the callback
\* may throw), next frame
CvSegResolve ==
    /\ cvSegInFlight
    /\ \E seg \in CvMasks(CvPixels) :
        /\ cvSeg' = seg
        /\ cvMask' = BuildMaskImage(seg, CvPixels)
        /\ cvOut' = CompositeSolid(cvTemp, cvMask', CvPixels)
    /\ IF cvHasProgress /\ Duration # 0
       THEN /\ cvProgPrev' = cvProgLast
            /\ cvProgLast' = ProgressValue(vTime, Duration)
            /\ cvProgThrew' \in BOOLEAN
       ELSE UNCHANGED progVars
    /\ cvSegInFlight' = FALSE
    /\ cvTickResult' = "composited"
    /\ cvRaf' = ReachesNextFrame(cvProgThrew')
    /\ UNCHANGED <<cvPc, optVars, setupVars, videoVars, cvTemp, cvTicks,
                   cvStopped, recVars, promiseVars>>
    /\ UNCHANGED <<uaVars, pgVars, cpVars>>

\* net.segmentPerson rejects: processFrame's promise rejects, nothing handles
\* it and no further frame is requested
CvSegReject ==
    /\ cvSegInFlight
    /\ cvSegInFlight' = FALSE
    /\ cvTickResult' = "rejected"
    /\ UNCHANGED <<cvPc, optVars, setupVars, videoVars, canvasVars, cvRaf,
                   cvTicks, cvStopped, recVars, promiseVars, progVars>>
    /\ UNCHANGED <<uaVars, pgVars, cpVars>>

\* playback advances by one clock unit; at the end the element is ended
VideoAdvance ==
    /\ ~vPaused
    /\ ~vEnded
    /\ vTime' = vTime + 1
    /\ vEnded' = (vTime + 1 >= Duration)
    /\ vPaused' = (vTime + 1 >= Duration)
    /\ UNCHANGED <<cvPc, optVars, setupVars, canvasVars, loopVars, recVars,
                   promiseVars, progVars>>
    /\ UNCHANGED <<uaVars, pgVars, cpVars>>

\* recorder.ondataavailable while recording: non-empty chunks are kept
RecData ==
    /\ recState = "recording"
    /\ recDelivered < MaxChunks
    /\ \E size \in {0, 1} :
        /\ recChunks' = IF size # 0 THEN Append(recChunks, 1 + recDelivered)
                        ELSE recChunks
        /\ recEmpty' = IF size # 0 THEN recEmpty
                       ELSE recEmpty \cup {1 + recDelivered}
    /\ recDelivered' = recDelivered + 1
    /\ UNCHANGED recErrored
    /\ UNCHANGED <<cvPc, optVars, setupVars, videoVars, canvasVars, loopVars,
                   recState, recStopPending, recStopCalls, recBadStops,
                   promiseVars, progVars>>
    /\ UNCHANGED <<uaVars, pgVars, cpVars>>

\* an onerror handler that treats the encoder's error as fatal
RecErrorRejects ==
    /\ recState = "recording"
    /\ CvReject
    /\ cvError' = "encoder"
    /\ UNCHANGED <<cvPc, optVars, setupVars, videoVars, canvasVars, loopVars,
                   recVars, cvBlobs, progVars>>
    /\ UNCHANGED <<uaVars, pgVars, cpVars>>

\* an onerror handler that gives the recording up: the loop is stopped and
\* the recorder discarded without its stop event
RecErrorAborts ==
    /\ recState = "recording"
    /\ recErrored' = TRUE
    /\ recState' = "inactive"
    /\ cvRaf' = FALSE
    /\ UNCHANGED <<cvPc, optVars, setupVars, videoVars, canvasVars,
                   cvSegInFlight, cvTicks, cvTickResult, cvStopped,
                   recStopPending, recChunks, recEmpty, recDelivered,
                   recStopCalls, recBadStops, promiseVars, progVars>>
    /\ UNCHANGED <<uaVars, pgVars, cpVars>>

\* recorder.onerror: the event is written to the console, nothing else
RecError ==
    /\ recState = "recording"
    /\ recErrored' = TRUE
    /\ UNCHANGED <<cvPc, optVars, setupVars, videoVars, canvasVars, loopVars,
                   recState, recStopPending, recChunks, recEmpty,
                   recDelivered, recStopCalls, recBadStops, promiseVars,
                   progVars>>
    /\ UNCHANGED <<uaVars, pgVars, cpVars>>

\* the recorder stops on its own (its tracks ended, or after an error)
RecOwnStop ==
    /\ recState = "recording"
    /\ recState' = "inactive"
    /\ recStopPending' = TRUE
    /\ UNCHANGED <<cvPc, optVars, setupVars, videoVars, canvasVars, loopVars,
                   recChunks, recEmpty, recDelivered, recErrored,
                   recStopCalls, recBadStops, promiseVars, progVars>>
    /\ UNCHANGED <<uaVars, pgVars, cpVars>>

\* a stop handler that assembles the Blob from the chunks it had before the
\* recorder's last dataavailable event
RecStopTaskDropsLast ==
    /\ recStopPending
    /\ recStopPending' = FALSE
    /\ \E size \in {0, 1} :
        /\ recChunks' = IF size # 0 THEN Append(recChunks, MaxChunks + 1)
                        ELSE recChunks
        /\ recEmpty' = IF size # 0 THEN recEmpty
                       ELSE recEmpty \cup {MaxChunks + 1}
    /\ cvBlobs' = cvBlobs + 1
    /\ cvAudioCtx' = IF cvAudioCtx = "open" THEN "closed" ELSE cvAudioCtx
    /\ CvResolve(<<recChunks, cvRecorderMime>>)
    /\ UNCHANGED <<cvPc, optVars, cvSupported, cvRecorderMime, recMime,
                   cvAudioTrack, videoVars, canvasVars, loopVars, recState,
                   recDelivered, recErrored, recStopCalls, recBadStops,
                   progVars>>
    /\ UNCHANGED <<uaVars, pgVars, cpVars>>

\* the recorder's stop task: a last dataavailable event, then onstop, which
\* assembles the Blob, closes the audio context and resolves the promise
RecStopTask ==
    /\ recStopPending
    /\ recStopPending' = FALSE
    /\ \E size \in {0, 1} :
        /\ recChunks' = IF size # 0 THEN Append(recChunks, MaxChunks + 1)
                        ELSE recChunks
        /\ recEmpty' = IF size # 0 THEN recEmpty
                       ELSE recEmpty \cup {MaxChunks + 1}
    /\ cvBlobs' = cvBlobs + 1
    /\ cvAudioCtx' = IF cvAudioCtx = "open" THEN "closed" ELSE cvAudioCtx
    /\ CvResolve(<<recChunks', cvRecorderMime>>)
    /\ UNCHANGED <<cvPc, optVars, cvSupported, cvRecorderMime, recMime,
                   cvAudioTrack, videoVars, canvasVars, loopVars, recState,
                   recDelivered, recErrored, recStopCalls, recBadStops,
                   progVars>>
    /\ UNCHANGED <<uaVars, pgVars, cpVars>>

\* ------------------------------------------------- UploadAR effect: state
\* number of 'canplay' events the hidden video element fires
MaxCanPlay == 2
\* number of distinct frames of the looping video
UaFrames == 2

Inits == 1..MaxCanPlay

UaInit ==
    /\ uaMounted = TRUE
    /\ uaCancel = FALSE
    /\ uaRunning = FALSE
    /\ uaCanPlays = 0
    /\ uaPc = [k \in Inits |-> "unborn"]
    /\ uaLatest = 0
    /\ uaSource = <<>>
    /\ uaOutput = <<>>
    /\ uaFlagged = FALSE
    /\ uaTexture = <<"none", 0>>
    /\ uaSrc = <<>>
    /\ uaMask = <<>>
    /\ uaTick = "none"
    /\ uaLateCalls = FALSE

\* ----------------------------------------------- UploadAR effect: helpers
\* Every initBodyPix call creates its own pair of canvases and its own
\* CanvasTexture and stores them in the effect's variables. The pixels of a
\* pair are tracked while the variables hold it; once a later call has
\* replaced it only the loop of the call that created it can reach it, and
\* what that loop writes there is seen by nobody.

\* a loop body that copies the source's alpha along with its colour
CompositeKeepAlpha(src, mask, n) ==
    [i \in 1..n |-> IF i <= Len(mask) THEN src[i] ELSE Transparent]

\* the image written by the loop body: createImageData, then for every mask
\* entry the source's RGB with alpha 255 or 0; writes past the end of
\* out.data are dropped, pixels past the mask stay transparent black
CompositeTransparent(src, mask, n) ==
    [i \in 1..n |-> IF i <= Len(mask)
                    THEN [src[i] EXCEPT !.a = IF mask[i] # 0 THEN 255 ELSE 0]
                    ELSE Transparent]

\* a while condition that tests the running flag alone
LoopConditionRunningOnly == uaRunning

\* the while condition of runLoop
LoopCondition == uaRunning /\ ~uaCancel

\* the loop body up to its await: draw the frame the looping video shows
\* at that moment (any of its frames), call segmentPerson
UaBeginTick(k) ==
    /\ IF k = uaLatest
       THEN \E t \in 0..(UaFrames - 1) :
                uaSource' = DrawImage(uaSource, VideoFrame(t, NumPixels))
       ELSE UNCHANGED uaSource
    /\ uaPc' = [uaPc EXCEPT ![k] = "segmenting"]
    /\ uaLateCalls' = (uaLateCalls \/ ~uaMounted)

\* the top of the while loop after a loop body has completed: leave the
\* loop, sleep, or (frame delay already elapsed) start the next tick at once
UaGoRound(k, elapsed) ==
    IF ~LoopCondition
    THEN /\ ~elapsed
         /\ uaPc' = [uaPc EXCEPT ![k] = "exited"]
         /\ UNCHANGED <<uaSource, uaLateCalls>>
    ELSE IF elapsed
    THEN UaBeginTick(k)
    ELSE /\ uaPc' = [uaPc EXCEPT ![k] = "sleeping"]
         /\ UNCHANGED <<uaSource, uaLateCalls>>

\* ----------------------------------------------- UploadAR effect: actions
\* handleCanPlay: a VideoTexture goes to state, initBodyPix is kicked off
UaCanPlay ==
    /\ uaMounted
    /\ uaCanPlays < MaxCanPlay
    /\ uaCanPlays' = uaCanPlays + 1
    /\ uaTexture' = <<"video", uaCanPlays + 1>>
    /\ uaPc' = [uaPc EXCEPT ![uaCanPlays + 1] = "loading"]
    /\ UNCHANGED <<uaMounted, uaCancel, uaRunning, uaLatest, uaSource,
                   uaOutput, uaFlagged, uaSrc, uaMask, uaTick, uaLateCalls>>
    /\ UNCHANGED <<cvVars, pgVars, cpVars>>

\* initBodyPix after its awaits: canvases, CanvasTexture into state,
\* segmentationLoop.running = true, and runLoop up to its first sleep
UaInitDone(k) ==
    /\ uaPc[k] = "loading"
    /\ uaLatest' = k
    /\ uaSource' = ClearRect(NumPixels)
    /\ uaOutput' = ClearRect(NumPixels)
    /\ uaFlagged' = FALSE
    /\ uaSrc' = <<>>
    /\ uaMask' = <<>>
    /\ uaTick' = "none"
    /\ uaTexture' = <<"canvas", k>>
    /\ uaRunning' = TRUE
    /\ uaPc' = [uaPc EXCEPT ![k] = IF ~uaCancel THEN "sleeping" ELSE "exited"]
    /\ UNCHANGED <<uaMounted, uaCancel, uaCanPlays, uaLateCalls>>
    /\ UNCHANGED <<cvVars, pgVars, cpVars>>

\* an import, tf.ready or bodyPix.load rejects: warning, VideoTexture stays
UaInitFail(k) ==
    /\ uaPc[k] = "loading"
    /\ uaPc' = [uaPc EXCEPT ![k] = "failed"]
    /\ UNCHANGED <<uaMounted, uaCancel, uaRunning, uaCanPlays, uaLatest,
                   uaSource, uaOutput, uaFlagged, uaTexture, uaSrc, uaMask,
                   uaTick, uaLateCalls>>
    /\ UNCHANGED <<cvVars, pgVars, cpVars>>

\* runLoop wakes from its sleep with the frame delay elapsed: it leaves the
\* loop if the condition fails, else starts a tick
UaWake(k) ==
    /\ uaPc[k] = "sleeping"
    /\ IF LoopCondition
       THEN UaBeginTick(k)
       ELSE /\ uaPc' = [uaPc EXCEPT ![k] = "exited"]
            /\ UNCHANGED <<uaSource, uaLateCalls>>
    /\ UNCHANGED <<uaMounted, uaCancel, uaRunning, uaCanPlays, uaLatest,
                   uaOutput, uaFlagged, uaTexture, uaSrc, uaMask, uaTick>>
    /\ UNCHANGED <<cvVars, pgVars, cpVars>>

\* segmentPerson resolves: the composite is put on the call's output canvas,
\* the canvasTex variable is flagged, and the loop goes round
UaSegResolve(k) ==
    /\ uaPc[k] = "segmenting"
    /\ IF k = uaLatest
       THEN \E mask \in Masks(NumPixels) :
                /\ uaSrc' = uaSource
                /\ uaOutput' = CompositeTransparent(uaSrc', mask, NumPixels)
                /\ uaMask' = mask
                /\ uaTick' = "composited"
       ELSE UNCHANGED <<uaOutput, uaSrc, uaMask, uaTick>>
    /\ \E elapsed \in BOOLEAN : UaGoRound(k, elapsed)
    /\ uaFlagged' = TRUE
    /\ UNCHANGED <<uaMounted, uaCancel, uaRunning, uaCanPlays, uaLatest,
                   uaTexture>>
    /\ UNCHANGED <<cvVars, pgVars, cpVars>>

\* a catch clause that gives up the loop when segmentPerson rejects
UaSegRejectExits(k) ==
    /\ uaPc[k] = "segmenting"
    /\ uaPc' = [uaPc EXCEPT ![k] = "exited"]
    /\ uaTick' = IF k = uaLatest THEN "rejected" ELSE uaTick
    /\ UNCHANGED <<uaMounted, uaCancel, uaRunning, uaCanPlays, uaLatest,
                   uaSource, uaOutput, uaFlagged, uaTexture, uaSrc, uaMask,
                   uaLateCalls>>
    /\ UNCHANGED <<cvVars, pgVars, cpVars>>

\* segmentPerson rejects: the catch clause ignores it, the loop goes round
UaSegReject(k) ==
    /\ uaPc[k] = "segmenting"
    /\ \E elapsed \in BOOLEAN : UaGoRound(k, elapsed)
    /\ uaTick' = IF k = uaLatest THEN "rejected" ELSE uaTick
    /\ UNCHANGED <<uaMounted, uaCancel, uaRunning, uaCanPlays, uaLatest,
                   uaOutput, uaFlagged, uaTexture, uaSrc, uaMask>>
    /\ UNCHANGED <<cvVars, pgVars, cpVars>>

\* the effect's cleanup (unmount or new videoSrc)
UaCleanup ==
    /\ uaMounted
    /\ uaMounted' = FALSE
    /\ uaCancel' = TRUE
    /\ uaRunning' = FALSE
    /\ UNCHANGED <<uaCanPlays, uaPc, uaLatest, uaSource, uaOutput, uaFlagged,
                   uaTexture, uaSrc, uaMask, uaTick, uaLateCalls>>
    /\ UNCHANGED <<cvVars, pgVars, cpVars>>

\* ---------------------------------------------- upload page: frame loop
\* frame size of the upload page's video (pixels)
PgWidth == 34
PgHeight == 3
\* number of runs of the frame-loop effect (mount, then one per change of
\* model or videoURL)
PgMaxEffects == 4
\* number of distinct frames of the looping video
PgFrames == 2

PgPixels == PgWidth * PgHeight

Effects == 1..PgMaxEffects

\* the person-pixel count below which the page draws the frame unmasked
FallbackThreshold == 100

\* masks of n entries whose first (or last) k entries are person-positive
PrefixMask(k, n) == [i \in 1..n |-> IF i <= k THEN 1 ELSE 0]

SuffixMask(k, n) == [i \in 1..n |-> IF i > n - k THEN 1 ELSE 0]

\* the segmentation results of the page model: nobody, and person counts
\* just below and at the fallback threshold, at either end of the frame
PgCounts(n) == {c \in {0, FallbackThreshold - 1, FallbackThreshold} :
                    c >= 0 /\ c <= n}

PgMasks(n) == {PrefixMask(c, n) : c \in PgCounts(n)}
              \cup {SuffixMask(FallbackThreshold, n)}

PgInit ==
    /\ pgMounted = TRUE
    /\ pgModel = FALSE
    /\ pgVideo = "none"
    /\ pgEffect = 1
    /\ pgHasModel = [e \in Effects |-> FALSE]
    /\ pgLoop = [e \in Effects |-> IF e = 1 THEN "raf" ELSE "none"]
    /\ pgCanvas = <<>>
    /\ pgFrameAt = 0
    /\ pgSeg = <<>>
    /\ pgTick = "none"

\* the effect closure's flag `running`: set until the run's cleanup
PgRunning(e) == pgMounted /\ e = pgEffect

\* bodyPix.toMask(segmentation, foreground, background): the foreground
\* colour where the entry is 1, the background colour elsewhere
ToMask(seg, fg, bg) == [i \in DOMAIN seg |-> IF seg[i] = 1 THEN fg ELSE bg]

\* a fallback test that is off by one at the threshold
BelowOrAtThreshold(count) == count <= FallbackThreshold

\* the test that selects the unmasked fallback
BelowThreshold(count) == count < FallbackThreshold

\* what frameLoop draws after segmentPerson has resolved: the flipped frame,
\* and unless the count is below the threshold the mask canvas drawn over it
\* with 'destination-in' under the same flip
PgComposite(frame, seg, w, h) ==
    LET flipped == DrawImage(ClearRect(w * h), FlipVertical(frame, w, h))
    IN IF BelowThreshold(PersonCount(seg))
       THEN flipped
       ELSE LET maskCanvas == ToMask(seg, Px(0, 0, 0, 255), Px(0, 0, 0, 0))
            IN DrawDestinationIn(flipped, FlipVertical(maskCanvas, w, h))

\* cleanup of the current effect run followed by a new run
PgRerun(hasModel) ==
    /\ pgEffect < PgMaxEffects
    /\ pgEffect' = pgEffect + 1
    /\ pgHasModel' = [pgHasModel EXCEPT ![pgEffect + 1] = hasModel]
    /\ pgLoop' = [e \in Effects |->
                    IF e = pgEffect + 1 THEN "raf"
                    ELSE IF e = pgEffect /\ pgLoop[e] = "raf" THEN "stopped"
                    ELSE pgLoop[e]]

\* bodyPix.load resolves: setModel, the frame-loop effect runs again
PgModelLoaded ==
    /\ pgMounted
    /\ ~pgModel
    /\ pgModel' = TRUE
    /\ PgRerun(TRUE)
    /\ UNCHANGED <<pgMounted, pgVideo, pgCanvas, pgFrameAt,
                   pgSeg, pgTick>>
    /\ UNCHANGED <<cvVars, uaVars, cpVars>>

\* handleFile: a new videoURL, the element reloads, the effect runs again
PgFileChosen ==
    /\ pgMounted
    /\ pgVideo' = "loading"
    /\ PgRerun(pgModel)
    /\ UNCHANGED <<pgMounted, pgModel, pgCanvas, pgFrameAt, pgSeg, pgTick>>
    /\ UNCHANGED <<cvVars, uaVars, cpVars>>

\* the chosen video has loaded its metadata: its dimensions are known
PgVideoLoaded ==
    /\ pgMounted
    /\ pgVideo = "loading"
    /\ pgVideo' = "ready"
    /\ UNCHANGED <<pgMounted, pgModel, pgEffect, pgHasModel, pgLoop,
                   pgCanvas, pgFrameAt, pgSeg, pgTick>>
    /\ UNCHANGED <<cvVars, uaVars, cpVars>>

\* frameLoop called with running false: it returns without a new request
PgFrameStopped(e) ==
    /\ pgLoop[e] = "raf"
    /\ ~PgRunning(e)
    /\ pgLoop' = [pgLoop EXCEPT ![e] = "stopped"]
    /\ UNCHANGED <<pgMounted, pgModel, pgVideo, pgEffect,
                   pgHasModel, pgCanvas, pgFrameAt, pgSeg, pgTick>>
    /\ UNCHANGED <<cvVars, uaVars, cpVars>>

\* frameLoop up to its await: the canvas is resized to the video, which
\* clears it, and segmentPerson is called. (Without a model or without
\* video dimensions frameLoop only requests the next frame.)
PgFrameSegment(e) ==
    /\ pgLoop[e] = "raf"
    /\ PgRunning(e)
    /\ pgHasModel[e]
    /\ pgVideo = "ready"
    /\ pgCanvas' = ClearRect(PgPixels)
    /\ pgLoop' = [pgLoop EXCEPT ![e] = "segmenting"]
    /\ pgTick' = "started"
    /\ UNCHANGED <<pgMounted, pgModel, pgVideo, pgEffect,
                   pgHasModel, pgFrameAt, pgSeg>>
    /\ UNCHANGED <<cvVars, uaVars, cpVars>>

\* segmentPerson resolves: count, fallback or masked composite of the frame
\* the video shows now, then the next frame is requested
PgSegResolve(e) ==
    /\ pgLoop[e] = "segmenting"
    /\ \E seg \in PgMasks(PgPixels), t \in 0..(PgFrames - 1) :
        /\ pgSeg' = seg
        /\ pgFrameAt' = t
        /\ pgCanvas' = PgComposite(VideoFrame(t, PgPixels), seg,
                                   PgWidth, PgHeight)
    /\ pgLoop' = [pgLoop EXCEPT ![e] = "raf"]
    /\ pgTick' = "composited"
    /\ UNCHANGED <<pgMounted, pgModel, pgVideo, pgEffect,
                   pgHasModel>>
    /\ UNCHANGED <<cvVars, uaVars, cpVars>>

\* segmentPerson rejects: the error is logged, the next frame is requested
PgSegReject(e) ==
    /\ pgLoop[e] = "segmenting"
    /\ pgLoop' = [pgLoop EXCEPT ![e] = "raf"]
    /\ pgTick' = "rejected"
    /\ UNCHANGED <<pgMounted, pgModel, pgVideo, pgEffect,
                   pgHasModel, pgCanvas, pgFrameAt, pgSeg>>
    /\ UNCHANGED <<cvVars, uaVars, cpVars>>

\* the page unmounts: cleanup of the current effect run
PgUnmount ==
    /\ pgMounted
    /\ pgMounted' = FALSE
    /\ pgLoop' = [e \in Effects |->
                    IF e = pgEffect /\ pgLoop[e] = "raf" THEN "stopped"
                    ELSE pgLoop[e]]
    /\ UNCHANGED <<pgModel, pgVideo, pgEffect, pgHasModel,
                   pgCanvas, pgFrameAt, pgSeg, pgTick>>
    /\ UNCHANGED <<cvVars, uaVars, cpVars>>

\* ------------------------------------------------------- convert page
\* number of files the user selects
CpMaxFiles == 3

CpUrls == 1..CpMaxFiles

CpInit ==
    /\ cpFiles = 0
    /\ cpSourceUrl = 0
    /\ cpConvertedUrl = 0
    /\ cpProgress = 0
    /\ cpProcessing = FALSE
    /\ cpJobs = {}

\* onFile: state is reset and a fresh object URL becomes sourceUrl
CpOnFile ==
    /\ cpFiles < CpMaxFiles
    /\ cpFiles' = cpFiles + 1
    /\ cpConvertedUrl' = 0
    /\ cpProgress' = 0
    /\ cpProcessing' = FALSE
    /\ cpSourceUrl' = cpFiles + 1
    /\ UNCHANGED cpJobs
    /\ UNCHANGED <<cvVars, uaVars, pgVars>>

\* the Convert button (disabled without a source or while processing):
\* convert() up to its await on convertVideoBackground(sourceUrl, ...)
CpConvert ==
    /\ cpSourceUrl # 0
    /\ ~cpProcessing
    /\ cpProcessing' = TRUE
    /\ cpProgress' = 0
    /\ cpJobs' = cpJobs \cup {cpSourceUrl}
    /\ UNCHANGED <<cpFiles, cpSourceUrl, cpConvertedUrl>>
    /\ UNCHANGED <<cvVars, uaVars, pgVars>>

\* the onProgress callback of a conversion that is under way
CpOnProgress(u) ==
    /\ u \in cpJobs
    /\ cpProgress' = 1
    /\ UNCHANGED <<cpFiles, cpSourceUrl, cpConvertedUrl, cpProcessing, cpJobs>>
    /\ UNCHANGED <<cvVars, uaVars, pgVars>>

\* convertVideoBackground resolves: convert() stores the Blob's object URL as
\* convertedUrl, and its finally clause clears processing
CpConverted(u) ==
    /\ u \in cpJobs
    /\ cpJobs' = cpJobs \ {u}
    /\ cpConvertedUrl' = u
    /\ cpProcessing' = FALSE
    /\ UNCHANGED <<cpFiles, cpSourceUrl, cpProgress>>
    /\ UNCHANGED <<cvVars, uaVars, pgVars>>

\* convertVideoBackground rejects: console.error, alert, processing cleared
CpConvertFailed(u) ==
    /\ u \in cpJobs
    /\ cpJobs' = cpJobs \ {u}
    /\ cpProcessing' = FALSE
    /\ UNCHANGED <<cpFiles, cpSourceUrl, cpConvertedUrl, cpProgress>>
    /\ UNCHANGED <<cvVars, uaVars, pgVars>>

\* reset (the "Upload new" button)
CpReset ==
    /\ cpSourceUrl' = 0
    /\ cpConvertedUrl' = 0
    /\ cpProgress' = 0
    /\ cpProcessing' = FALSE
    /\ UNCHANGED <<cpFiles, cpJobs>>
    /\ UNCHANGED <<cvVars, uaVars, pgVars>>

\* ------------------------------------------------------- specifications
\* a conversion that is never called
CvIdle == CvInit /\ cvMimeReq = DefaultMime /\ ~cvHasProgress

\* one call of convertVideoBackground
Init == CvInit /\ UaInit /\ PgInit /\ CpInit

Next ==
    \/ CvLoadOk
    \/ CvLoadFail
    \/ CvMetaError
    \/ CvMetaLoaded
    \/ CvPlayResult
    \/ CvResumeDone
    \/ CvTickTerminate
    \/ CvTickSegment
    \/ CvSegResolve
    \/ CvSegReject
    \/ VideoAdvance
    \/ RecData
    \/ RecError
    \/ RecOwnStop
    \/ RecStopTask

Spec == Init /\ [][Next]_vars

\* the steps of a call that the browser is bound to take: awaited promises
\* of the executor settle, requested animation frames run, playback advances
\* and the recorder's queued stop task runs. The video element's
\* 'loadedmetadata' and 'error' events are the resource's to fire or not, and
\* so are the recorder's own events
CvStep ==
    \/ CvLoadOk
    \/ CvLoadFail
    \/ CvPlayResult
    \/ CvResumeDone
    \/ CvTickTerminate
    \/ CvTickSegment
    \/ CvSegResolve
    \/ CvSegReject
    \/ VideoAdvance
    \/ RecStopTask

\* one call of convertVideoBackground in a browser that keeps running
FairSpec == Spec /\ WF_vars(CvStep)

\* one UploadAR effect, from mount to cleanup
InitUploadAR == CvIdle /\ UaInit /\ PgInit /\ CpInit

NextUploadAR ==
    \/ UaCanPlay
    \/ \E k \in Inits : UaInitDone(k)
    \/ \E k \in Inits : UaInitFail(k)
    \/ \E k \in Inits : UaWake(k)
    \/ \E k \in Inits : UaSegResolve(k)
    \/ \E k \in Inits : UaSegReject(k)
    \/ UaCleanup

SpecUploadAR == InitUploadAR /\ [][NextUploadAR]_vars

\* a loop of the effect gets past the await it is suspended at: the model
\* load, the sleep timer or the segmentation call settles
UaLoopStep ==
    \E k \in Inits :
        \/ UaInitDone(k)
        \/ UaInitFail(k)
        \/ UaWake(k)
        \/ UaSegResolve(k)
        \/ UaSegReject(k)

\* the same, where awaits settle: while a loop is suspended, some loop gets
\* past its await in the end
FairUploadAR == SpecUploadAR /\ WF_vars(UaLoopStep)

\* the upload page, from mount to unmount
InitPage == CvIdle /\ UaInit /\ PgInit /\ CpInit

NextPage ==
    \/ PgModelLoaded
    \/ PgFileChosen
    \/ PgVideoLoaded
    \/ \E e \in Effects : PgFrameStopped(e)
    \/ \E e \in Effects : PgFrameSegment(e)
    \/ \E e \in Effects : PgSegResolve(e)
    \/ \E e \in Effects : PgSegReject(e)
    \/ PgUnmount

SpecPage == InitPage /\ [][NextPage]_vars

\* the convert page, over the files the user selects
InitConvertPage == CvIdle /\ UaInit /\ PgInit /\ CpInit

NextConvertPage ==
    \/ CpOnFile
    \/ CpConvert
    \/ \E u \in CpUrls : CpOnProgress(u)
    \/ \E u \in CpUrls : CpConverted(u)
    \/ \E u \in CpUrls : CpConvertFailed(u)
    \/ CpReset

SpecConvertPage == InitConvertPage /\ [][NextConvertPage]_vars

\* ------------------------------------------------------------- properties
Rgb(px) == <<px.r, px.g, px.b>>

Truthy(seg) == {i \in DOMAIN seg : seg[i] # 0}

\* the state right after a composite of convertVideoBackground: the next
\* frame is requested and tempCanvas still holds the frame of this tick
CvJustComposited == cvTickResult = "composited" /\ cvRaf

\* C1: after a tick's composite in convertVideoBackground, with a mask of one
\* entry per pixel, every pixel of the output canvas has alpha 255 and every
\* pixel whose mask entry is truthy has the colour of the source frame.
C1_SolidOpaque ==
    (CvJustComposited /\ Len(cvSeg) = CvPixels) =>
        \A i \in 1..CvPixels :
            /\ cvOut[i].a = 255
            /\ (cvSeg[i] # 0 => Rgb(cvOut[i]) = Rgb(cvTemp[i]))

\* the 2x2 test frame [[255,0,0],[0,255,0],[0,0,255],[255,255,0]]
TestFrame == <<Red, Green, Blue, Yellow>>

\* C2: the composite the UploadAR loop writes to the output canvas has, at
\* every pixel, the RGB of the source frame and alpha 255 where the mask entry
\* is truthy and 0 elsewhere (mask of one entry per pixel); for the 2x2 test
\* frame and mask [1,0,0,1] the alphas are [255,0,0,255].
C2_TransparentComposite ==
    /\ (uaMask # <<>> /\ Len(uaMask) = NumPixels) =>
          \A i \in 1..NumPixels :
              /\ Rgb(uaOutput[i]) = Rgb(uaSrc[i])
              /\ uaOutput[i].a \in {0, 255}
              /\ (uaOutput[i].a = 255) <=> (uaMask[i] # 0)
    /\ (uaSrc = TestFrame /\ uaMask = <<1, 0, 0, 1>>) =>
          /\ [i \in 1..4 |-> uaOutput[i].a] = <<255, 0, 0, 255>>
          /\ Rgb(uaOutput[1]) = <<255, 0, 0>>
          /\ Rgb(uaOutput[4]) = <<255, 255, 0>>

\* a composite of the test frame under the mask [1,0,0,1] has been written
C2_Witness ==
    /\ uaSrc = TestFrame
    /\ uaMask = <<1, 0, 0, 1>>
    /\ uaOutput[1] = Red
    /\ uaOutput[2].a = 0

\* the pixel of the upload page's video frame that the flip draws at pixel i
PgSourceOf(i) == (PgHeight - 1 - ((i - 1) \div PgWidth)) * PgWidth
                 + ((i - 1) % PgWidth) + 1

\* the video frame the last composite of the upload page has drawn
PgDrawn == VideoFrame(pgFrameAt, PgPixels)

\* C3: in the upload page frame loop a composite whose mask has fewer than 100
\* person-positive entries is the vertically flipped frame, unmasked and
\* opaque; with 100 or more entries the mask is applied: a pixel is opaque
\* with the frame's colour where the mask is positive, transparent elsewhere.
C3_FallbackBoundary ==
    (pgTick = "composited") =>
        \A i \in 1..PgPixels :
            IF Cardinality(Truthy(pgSeg)) < 100
            THEN pgCanvas[i] = PgDrawn[PgSourceOf(i)]
            ELSE IF pgSeg[PgSourceOf(i)] # 0
            THEN pgCanvas[i] = PgDrawn[PgSourceOf(i)]
            ELSE pgCanvas[i].a = 0

\* a composite at the boundary: exactly 100 positive entries, mask applied
C3_Witness ==
    /\ pgTick = "composited"
    /\ Cardinality(Truthy(pgSeg)) = 100
    /\ \E i \in 1..PgPixels : pgCanvas[i].a = 0
    /\ \E i \in 1..PgPixels : pgCanvas[i].a = 255

\* C4: when the mask of a tick has fewer person-positive entries than the
\* fallback threshold, the UploadAR composite is the source frame, unmasked
\* and opaque.
C4_FallbackUploadAR ==
    (uaMask # <<>> /\ Len(uaMask) = NumPixels
        /\ Cardinality(Truthy(uaMask)) < FallbackThreshold) =>
        uaOutput = uaSrc

\* C5: a rejected segmentation call leaves the tick loop of
\* convertVideoBackground alive: until a later tick composites or terminates,
\* the next frame is requested or a later segmentation call is in flight.
C5_RejectKeepsLoop ==
    (cvTickResult = "rejected") => (cvRaf \/ cvSegInFlight)

\* something convertVideoBackground waits on is still to come: an await of
\* the executor, a requested frame, a segmentation call, the stop task
CvWaiting ==
    \/ cvPc \in {"loading", "awaitMeta", "awaitPlay", "awaitResume"}
    \/ cvRaf
    \/ cvSegInFlight
    \/ recStopPending

\* C6: a call of convertVideoBackground settles: when nothing it waits on is
\* left to fire, the promise is resolved or rejected.
C6_Settles == ~CvWaiting => cvOutcome # "pending"

\* C7: a call of convertVideoBackground delivers at most one outcome: resolve
\* and reject are called at most once between them, with at most one Blob.
C7_AtMostOneOutcome ==
    /\ cvResolveCalls + cvRejectCalls <= 1
    /\ cvBlobs <= 1
    /\ (cvOutcome = "resolved") <=> (cvResolveCalls = 1)
    /\ (cvOutcome = "rejected") <=> (cvRejectCalls = 1)

\* the recorder stopped on its own, its Blob was delivered, and the tick
\* loop later ran its termination branch
C7_Witness ==
    /\ cvOutcome = "resolved"
    /\ cvTickResult = "terminated"
    /\ recStopCalls = 0
    /\ cvResolveCalls = 1

\* C8: stop() is only issued on a recording recorder, at most once, and a
\* session whose termination check has run finalizes exactly one artifact.
C8_StopIdempotent ==
    /\ recBadStops = 0
    /\ recStopCalls <= 1
    /\ cvBlobs <= 1
    /\ (cvTickResult = "terminated" /\ ~recStopPending) => cvBlobs = 1

\* the termination check ran on a recorder that was already inactive
C8_Witness ==
    /\ cvTickResult = "terminated"
    /\ recState = "inactive"
    /\ recStopCalls = 0
    /\ ~recStopPending
    /\ cvBlobs = 1

\* C9: every value passed to onProgress lies in [0,1] and is at least the
\* value passed before it.
C9_ProgressMonotone ==
    /\ cvProgLast # NoProgress =>
          (0 <= cvProgLast /\ cvProgLast <= Duration)
    /\ cvProgPrev # NoProgress =>
          (0 <= cvProgPrev /\ cvProgPrev <= cvProgLast)

\* two ticks have reported progress, the second a larger value
C9_Witness ==
    /\ cvProgPrev # NoProgress
    /\ cvProgPrev < cvProgLast

\* C10: when a run that reported progress has played the source to its end
\* and delivered the artifact, the last value reported is at least 0.99.
C10_FinalProgress ==
    (cvOutcome = "resolved" /\ vEnded /\ cvTickResult = "terminated"
        /\ cvProgLast # NoProgress) =>
        100 * cvProgLast >= 99 * Duration

\* C11: a tick of convertVideoBackground whose onProgress call threw ends as
\* a tick whose call returned: the value is recorded as reported, the composite
\* is on the output canvas, the next frame is requested and reject is not
\* called.
C11_ProgressThrowIgnored ==
    cvProgThrew =>
        /\ cvRaf
        /\ cvTickResult = "composited"
        /\ cvOut = CompositeSolid(cvTemp, cvMask, CvPixels)
        /\ cvProgLast # NoProgress
        /\ cvRejectCalls = 0

\* the callback threw on a second tick, after an earlier report
C11_Witness ==
    /\ cvProgThrew
    /\ cvProgPrev # NoProgress
    /\ cvTicks = 2

\* the pixels the last composite of the UploadAR loop has put on the output
\* canvas (transparent black while there has been none)
UaLastComposite ==
    IF uaMask = <<>> THEN ClearRect(NumPixels)
    ELSE CompositeTransparent(uaSrc, uaMask, NumPixels)

\* C12: after a tick of the UploadAR loop whose segmentation call rejected the
\* output canvas holds exactly what the previous tick left there, and the
\* loop goes on: a loop leaves its while loop only once cancel is set.
C12_RejectKeepsSurface ==
    /\ (uaTick = "rejected") => uaOutput = UaLastComposite
    /\ \A k \in Inits : uaPc[k] = "exited" => uaCancel

\* a tick was rejected after an earlier composite and the same loop has its
\* next segmentation call in flight
C12_Witness ==
    /\ uaTick = "rejected"
    /\ uaMask # <<>>
    /\ ~uaCancel
    /\ uaLatest # 0
    /\ uaPc[uaLatest] = "segmenting"

\* C13: after a tick of the upload page frame loop whose segmentation call
\* rejected, the mask canvas holds exactly what the last composite before it
\* has drawn.
C13_RejectKeepsCanvas ==
    (pgTick = "rejected" /\ pgSeg # <<>>) =>
        pgCanvas = PgComposite(PgDrawn, pgSeg, PgWidth, PgHeight)

\* C14: once the UploadAR effect is cancelled, a step in which a suspended
\* segmentation call completes neither changes the output canvas nor flags
\* the texture for update.
C14_LateResultDiscarded ==
    [][(uaCancel /\ \E k \in Inits : uaPc[k] = "segmenting"
                               /\ uaPc'[k] # "segmenting")
         => (uaOutput' = uaOutput /\ (uaFlagged' => uaFlagged))]_vars

\* no loop of the UploadAR effect is suspended at an await
UaAllStopped == \A k \in Inits : uaPc[k] \in {"unborn", "exited", "failed"}

PgCancelStopsLoop ==
    [][\A e \in Effects :
          (pgLoop'[e] = "segmenting" /\ pgLoop[e] # "segmenting")
              => (pgMounted /\ e = pgEffect)]_vars

\* C16: the tick loop of convertVideoBackground asks the recorder to stop
\* only when the source has ended or a stop was requested: a source that has
\* not ended never causes finalization.
C16_StopOnlyWhenEnded == (recStopCalls > 0) => (vEnded \/ cvStopped)

\* C17: when the video's error event fires before its metadata is loaded,
\* convertVideoBackground rejects with that error, the recorder is never
\* created or started, no tick runs and no Blob is delivered.
C17_LoadErrorRejects ==
    (cvError = "video") =>
        /\ cvOutcome = "rejected"
        /\ cvRejectCalls = 1
        /\ recState = "none"
        /\ cvRecorderMime = ""
        /\ ~cvRaf /\ ~cvSegInFlight /\ cvTicks = 0 /\ cvTickResult = "none"
        /\ ~recStopPending
        /\ cvBlobs = 0 /\ cvBlob = <<>> /\ cvResolveCalls = 0
        /\ ~CvWaiting

C17_Witness == cvError = "video" /\ cvPc = "failed" /\ cvOutcome = "rejected"

\* C18: the Blob delivered by convertVideoBackground declares the requested
\* mimeType when MediaRecorder.isTypeSupported(mimeType) is true and
\* 'video/webm' otherwise, and the recorder was constructed with the type the
\* Blob declares.
C18_BlobType ==
    (cvBlob # <<>>) =>
        /\ cvBlob[2] = (IF cvSupported THEN cvMimeReq ELSE "video/webm")
        /\ recMime = cvBlob[2]

C18_Witness ==
    /\ cvOutcome = "resolved"
    /\ cvBlob # <<>>
    /\ ~cvSupported
    /\ cvMimeReq # "video/webm"
    /\ cvBlob[2] = "video/webm"

C18_WitnessSupported ==
    /\ cvOutcome = "resolved"
    /\ cvSupported
    /\ cvMimeReq = "video/mp4"
    /\ cvBlob[2] = "video/mp4"

\* audio routing setup failed: the recorder exists and audioCtx is null
CvAudioSetupFailed == recState # "none" /\ cvAudioCtx = "null"

\* C19: when audio routing setup fails, convertVideoBackground does not fail
\* (nothing is rejected) and the captured stream is video-only: it carries no
\* audio track.
C19_AudioFailureSilence ==
    CvAudioSetupFailed => (cvRejectCalls = 0 /\ ~cvAudioTrack)

\* video.play() was refused: the recorder is built and the executor is past
\* its await on play() with the element still paused, not ended
CvPlayRefused ==
    /\ recState # "none"
    /\ cvPc # "awaitPlay"
    /\ vPaused
    /\ ~vEnded

\* C20: when video.play() is refused, convertVideoBackground is not rejected
\* and the caller still receives one artifact: once nothing the call waits on
\* is left to fire, the promise is resolved with the one Blob assembled.
C20_PlayRefusedDelivers ==
    CvPlayRefused =>
        /\ cvRejectCalls = 0
        /\ cvOutcome # "rejected"
        /\ ~CvWaiting =>
               (cvOutcome = "resolved" /\ cvBlobs = 1 /\ cvBlob # <<>>)

C20_Witness ==
    /\ CvPlayRefused
    /\ ~CvWaiting
    /\ cvOutcome = "resolved"
    /\ recStopCalls = 1

C22_StoppedTerminal ==
    /\ [](cvTickResult = "terminated" =>
            (~cvRaf /\ ~cvSegInFlight /\ recState = "inactive"))
    /\ [][cvTickResult = "terminated" =>
            /\ cvTickResult' = "terminated"
            /\ cvTicks' = cvTicks
            /\ cvOut' = cvOut
            /\ recState' = "inactive"
            /\ recStopCalls' = recStopCalls]_vars

C22_Witness ==
    /\ cvTickResult = "terminated"
    /\ cvTicks > 0
    /\ vEnded
    /\ cvOutcome = "resolved"

\* C23: when the source reports neither its metadata nor an error,
\* convertVideoBackground stops waiting for the metadata after a bounded wait
\* and goes on (with the fallback dimensions): the wait always ends.
C23_MetadataWaitEnds == (cvPc = "awaitMeta") ~> (cvPc # "awaitMeta")

\* C24: a mask whose length differs from width*height makes the tick of
\* convertVideoBackground fail: no tick completes its composite with such a
\* mask.
C24_MismatchFailsLoudly ==
    (cvTickResult = "composited") => Len(cvSeg) = CvPixels

\* the dataavailable events delivered so far, numbered in delivery order; the
\* one the recorder fires when it stops is numbered MaxChunks + 1
RecDeliveredIds ==
    (1..recDelivered) \cup (IF cvBlobs > 0 THEN {MaxChunks + 1} ELSE {})

\* C25: the Blob of convertVideoBackground holds exactly the non-empty
\* chunks delivered up to the recorder's stop event, in delivery order, and
\* the audio context is closed only once the Blob has been assembled.
C25_BlobChunks ==
    /\ (cvBlob # <<>>) =>
            /\ \A i, j \in DOMAIN cvBlob[1] :
                    i < j => cvBlob[1][i] < cvBlob[1][j]
            /\ {cvBlob[1][i] : i \in DOMAIN cvBlob[1]} =
                    RecDeliveredIds \ recEmpty
    /\ (cvAudioCtx = "closed") => (cvBlobs = 1 /\ cvBlob # <<>>)

C25_Witness ==
    /\ cvBlob # <<>>
    /\ cvBlob[1] = <<1, MaxChunks + 1>>
    /\ cvAudioCtx = "closed"
    /\ cvTicks > 0

C25_WitnessEmpty ==
    /\ cvBlob # <<>>
    /\ cvBlob[1] = <<MaxChunks + 1>>
    /\ recEmpty = {1}

\* C26: an error event of the encoder is only logged by
\* convertVideoBackground: the step changes nothing of the promise, the
\* recorder or the tick loop, the promise is never rejected afterwards, and
\* once the recorder has stopped the promise is resolved with the one Blob.
C26_EncoderErrorLogged ==
    /\ [](recErrored =>
            /\ cvRejectCalls = 0
            /\ cvOutcome # "rejected"
            /\ (recState = "inactive" /\ ~recStopPending) =>
                    (cvOutcome = "resolved" /\ cvBlobs = 1))
    /\ [][(~recErrored /\ recErrored') =>
            UNCHANGED <<recState, recStopPending, recChunks, loopVars,
                        promiseVars>>]_vars

C26_Witness ==
    /\ recErrored
    /\ recState = "inactive"
    /\ ~recStopPending
    /\ cvOutcome = "resolved"
    /\ recStopCalls = 1
    /\ cvTicks > 0

\* C27: once the upload page has published a first composite, the mask
\* canvas shows the latest completed composite at every moment, also while a
\* tick is suspended in its segmentation call: a render frame never samples a
\* cleared canvas.
C27_CanvasAlwaysComposite ==
    (pgSeg # <<>>) => pgCanvas = PgComposite(PgDrawn, pgSeg, PgWidth, PgHeight)

\* C28: once the UploadAR effect has been cleaned up, nothing of it puts a
\* texture into component state again: neither its 'canplay' handler nor an
\* initBodyPix call that is still running calls setTexture.
C28_NoTextureAfterCleanup == [][~uaMounted => uaTexture' = uaTexture]_vars

\* the initBodyPix calls whose runLoop is inside its while loop
UaActiveLoops == {k \in Inits : uaPc[k] \in {"sleeping", "segmenting"}}

\* C29: whatever the number of 'canplay' events, at most one segmentation
\* loop of the UploadAR effect is active at a time.
C29_OneLoop == Cardinality(UaActiveLoops) <= 1

\* C30: on the convert page convertedUrl is only ever the result of a
\* conversion of the current sourceUrl, for every interleaving of convert,
\* reset and file selection.
C30_ConvertedFromCurrentSource ==
    (cpConvertedUrl # 0) => (cpConvertedUrl = cpSourceUrl)

====
